---------------------------- MODULE Spec2Model ----------------------------
(***************************************************************************)
(* Model of lkvad.py: a playlist generator.  main() parses the arguments   *)
(* and rejects start > end; generate_playlist() checks the template for    *)
(* the wildcard, expands it over range(start, end + 1), optionally probes  *)
(* every URL through a ThreadPoolExecutor(max_workers = threads) and       *)
(* writes the surviving candidates in one of five formats.                 *)
(*                                                                         *)
(* Strings are sequences of one-character strings.  The main thread is     *)
(* the program counter pc; the pool's workers are the set `running`.       *)
(***************************************************************************)
EXTENDS Integers, Sequences, FiniteSets

\* ------------------------------------------------------------------ bounds
MaxTemplateLen == 2
MaxIdx == 1
MaxThreads == 2
PadWidth == 2

\* ------------------------------------------------------------------ inputs
TemplateChars == {"a", "*"}

RECURSIVE SeqsUpTo(_, _)
SeqsUpTo(S, n) ==
    IF n = 0 THEN {<<>>}
    ELSE LET shorter == SeqsUpTo(S, n - 1)
         IN  shorter \cup {Append(s, c) : s \in shorter, c \in S}

Templates == SeqsUpTo(TemplateChars, MaxTemplateLen)
Indices == 0..MaxIdx
Paddings == {0, PadWidth}            \* 0 stands for an absent -z (falsy)
Affixes == {<<>>, <<"p">>}           \* <<>> stands for an absent -P / -S
ThreadCounts == (0 - 1)..MaxThreads
Formats == {"plain", "m3u", "m3u8", "pls", "xspf"}
\* what one HEAD request can end in: a final status code, or an exception
StatusCodes == {200, 399, 400, 404}
Outcomes == [kind : {"status"}, code : StatusCodes]
              \cup [kind : {"ConnectionError", "Timeout"}, code : {0}]

\* ------------------------------------------------------------------ state
VARIABLES
    link, start, end, padding, gprefix, gsuffix, verify, threads, format,
    pc,          \* position of the main thread
    err,         \* why the run failed, "none" while it has not
    prefix, suffix,   \* the two halves of the template
    cur,         \* loop variable i of the generation loop
    urls,        \* list of (index, url) pairs
    generated,   \* the list as the generation loop left it
    submitted,   \* number of work items handed to the pool
    queue,       \* pool work queue: positions not yet picked by a worker
    running,     \* positions whose probe is in flight
    future,      \* future[k]: state of the k-th work item
    completion,  \* positions in the order their probes finished
    probes,      \* probes[k]: HEAD requests issued for the k-th candidate
    results,     \* list built from the map iterator
    handles,     \* write handles currently open on the output path
    opens,       \* times the output path was opened for writing
    written,     \* times a body was written to the output path
    content      \* lines of the output file

args == <<link, start, end, padding, gprefix, gsuffix, verify, threads, format>>
mainv == <<pc, err, prefix, suffix, cur, urls, generated, submitted, results>>
poolv == <<queue, running, future, completion, probes>>
filev == <<handles, opens, written, content>>
vars == <<args, mainv, poolv, filev>>

\* ------------------------------------------------------------------ strings
Digit(d) == <<"0", "1", "2", "3", "4", "5", "6", "7", "8", "9">>[d + 1]

RECURSIVE NatStr(_)
NatStr(n) == IF n < 10 THEN <<Digit(n)>> ELSE Append(NatStr(n \div 10), Digit(n % 10))

\* str(i)
Str(i) == IF i < 0 THEN <<"-">> \o NatStr(0 - i) ELSE NatStr(i)

RECURSIVE Zeros(_)
Zeros(n) == IF n <= 0 THEN <<>> ELSE <<"0">> \o Zeros(n - 1)

\* s.zfill(width): zeros go after a leading sign
zfill(s, width) ==
    IF Len(s) >= width THEN s
    ELSE IF Len(s) > 0 /\ s[1] \in {"+", "-"}
         THEN <<s[1]>> \o Zeros(width - Len(s)) \o Tail(s)
         ELSE Zeros(width - Len(s)) \o s

\* '*' in s
HasWildcard(s) == \E k \in 1..Len(s) : s[k] = "*"

CountWildcards(s) == Cardinality({k \in 1..Len(s) : s[k] = "*"})

FirstWildcard(s) == CHOOSE k \in 1..Len(s) : s[k] = "*" /\ \A j \in 1..(k - 1) : s[j] # "*"

\* prefix, suffix = link.split('*', 1) by the last wildcard instead of the first
Split_last(s) ==
    IF \E k \in 1..Len(s) : s[k] = "*"
    THEN LET k == CHOOSE j \in 1..Len(s) : s[j] = "*" /\ \A m \in (j + 1)..Len(s) : s[m] # "*"
         IN  <<SubSeq(s, 1, k - 1), SubSeq(s, k + 1, Len(s))>>
    ELSE <<s>>

\* s.split('*', 1): the parts around the first wildcard
Split(s) ==
    IF \E k \in 1..Len(s) : s[k] = "*"
    THEN <<SubSeq(s, 1, FirstWildcard(s) - 1), SubSeq(s, FirstWildcard(s) + 1, Len(s))>>
    ELSE <<s>>

\* the template taken whole as the prefix, without the membership test
ParseTemplate_nocheck(s) ==
    IF HasWildcard(s)
    THEN [ok |-> TRUE, prefix |-> Split(s)[1], suffix |-> Split(s)[2]]
    ELSE [ok |-> TRUE, prefix |-> s, suffix |-> <<>>]

\* the wildcard test and the split of the template
ParseTemplate(s) ==
    IF HasWildcard(s)
    THEN [ok |-> TRUE, prefix |-> Split(s)[1], suffix |-> Split(s)[2]]
    ELSE [ok |-> FALSE, prefix |-> <<>>, suffix |-> <<>>]

\* ------------------------------------------------------------------ generation
RangeValid_always(s, e) == TRUE

\* main(): start > end is a usage error
RangeValid(s, e) == ~(s > e)

RangeStop_short(e) == e

\* range(start, end + 1) stops before end + 1
RangeStop(e) == e + 1

\* the rendered index
NumStr(i, pad) == IF pad # 0 THEN zfill(Str(i), pad) ELSE Str(i)

\* one candidate's URL
MakeUrl(pre, suf, i, pad, gpre, gsuf) ==
    LET url0 == pre \o NumStr(i, pad) \o suf
        url1 == IF gpre # <<>> THEN gpre \o url0 ELSE url0
    IN  IF gsuf # <<>> THEN url1 \o gsuf ELSE url1

Candidate(i, url) == [index |-> i, url |-> url]

\* ------------------------------------------------------------------ verification
verify_url_raising(outcome) ==
    IF outcome.kind = "status"
    THEN IF 200 <= outcome.code /\ outcome.code < 400 THEN "true" ELSE "false"
    ELSE "exception"

\* verify_url(): the result the work item's future ends with
verify_url(outcome) ==
    IF outcome.kind = "status"
    THEN IF 200 <= outcome.code /\ outcome.code < 400 THEN "true" ELSE "false"
    ELSE "false"

VerifyRequested(v) == v

max_workers_plus(t) == t + 1

\* ThreadPoolExecutor(max_workers=args.threads)
max_workers(t) == t

\* results taken as the probes complete
NextResult_completed(nCollected, order) ==
    IF Len(order) > nCollected THEN order[nCollected + 1] ELSE 0

\* executor.map yields the results in the order of its input
NextResult(nCollected, order) == nCollected + 1

RECURSIVE ValidUrls(_)
\* [(i, url) for i, url, valid in results if valid]
ValidUrls(rs) ==
    IF rs = <<>> THEN <<>>
    ELSE IF rs[1].valid = "true"
         THEN <<Candidate(rs[1].index, rs[1].url)>> \o ValidUrls(Tail(rs))
         ELSE ValidUrls(Tail(rs))

\* ------------------------------------------------------------------ writers
Line(tag, n, url, idx) == [tag |-> tag, n |-> n, url |-> url, idx |-> idx]

RECURSIVE PlainBody(_)
PlainBody(us) ==
    IF us = <<>> THEN <<>>
    ELSE <<Line("url", 0, us[1].url, 0)>> \o PlainBody(Tail(us))

RECURSIVE M3uTracks(_)
M3uTracks(us) ==
    IF us = <<>> THEN <<>>
    ELSE <<Line("#EXTINF:-1,Track", 0, <<>>, us[1].index), Line("url", 0, us[1].url, 0)>>
         \o M3uTracks(Tail(us))

M3uBody(us) == <<Line("#EXTM3U", 0, <<>>, 0)>> \o M3uTracks(us)

PlsEntry_title_n(n, c) ==
    << Line("File", n, c.url, 0), Line("Title", n, <<>>, n),
       Line("Length", n, <<>>, 0), Line("", 0, <<>>, 0) >>

\* File{idx}, Title{idx}=Track {i}, Length{idx}=-1 and a blank line
PlsEntry(n, c) ==
    << Line("File", n, c.url, 0), Line("Title", n, <<>>, c.index),
       Line("Length", n, <<>>, 0), Line("", 0, <<>>, 0) >>

RECURSIVE PlsEntries(_, _)
\* enumerate(urls, 1)
PlsEntries(us, n) ==
    IF us = <<>> THEN <<>> ELSE PlsEntry(n, us[1]) \o PlsEntries(Tail(us), n + 1)

PlsBody(us) ==
    << Line("[playlist]", 0, <<>>, 0), Line("NumberOfEntries", Len(us), <<>>, 0),
       Line("Version=2", 0, <<>>, 0), Line("", 0, <<>>, 0) >> \o PlsEntries(us, 1)

RECURSIVE XspfTracks(_)
XspfTracks(us) ==
    IF us = <<>> THEN <<>>
    ELSE <<Line("location", 0, us[1].url, 0), Line("title", 0, <<>>, us[1].index)>>
         \o XspfTracks(Tail(us))

XspfBody(us) ==
    <<Line("<?xml", 0, <<>>, 0), Line("playlist", 0, <<>>, 0), Line("trackList", 0, <<>>, 0)>>
    \o XspfTracks(us)

\* what f.write puts into the handle opened by generate_playlist
Body(fmt, us) ==
    IF fmt \in {"m3u", "m3u8"} THEN M3uBody(us)
    ELSE IF fmt = "pls" THEN PlsBody(us)
    ELSE IF fmt = "xspf" THEN <<>>
    ELSE PlainBody(us)

\* ------------------------------------------------------------------ initial state
Init ==
    /\ link \in Templates
    /\ start \in Indices
    /\ end \in Indices
    /\ padding \in Paddings
    /\ gprefix \in Affixes
    /\ gsuffix \in Affixes
    /\ verify \in BOOLEAN
    /\ threads \in ThreadCounts
    /\ format \in Formats
    /\ pc = "main"
    /\ err = "none"
    /\ prefix = <<>>
    /\ suffix = <<>>
    /\ cur = 0
    /\ urls = <<>>
    /\ generated = <<>>
    /\ submitted = 0
    /\ queue = <<>>
    /\ running = {}
    /\ future = <<>>
    /\ completion = <<>>
    /\ probes = <<>>
    /\ results = <<>>
    /\ handles = 0
    /\ opens = 0
    /\ written = 0
    /\ content = <<>>

\* ------------------------------------------------------------------ main thread
\* main(): parser.error exits when start > end, else generate_playlist starts
CheckRange ==
    /\ pc = "main"
    /\ IF RangeValid(start, end)
       THEN pc' = "template" /\ err' = err
       ELSE pc' = "failed" /\ err' = "usage"
    /\ UNCHANGED <<args, prefix, suffix, cur, urls, generated, submitted, results, poolv, filev>>

\* the wildcard test and the split; urls = []
CheckTemplate ==
    /\ pc = "template"
    /\ LET t == ParseTemplate(link)
       IN  IF t.ok
           THEN /\ pc' = "generate"
                /\ err' = err
                /\ prefix' = t.prefix
                /\ suffix' = t.suffix
                /\ cur' = start
           ELSE /\ pc' = "failed"
                /\ err' = "ValueError: template"
                /\ UNCHANGED <<prefix, suffix, cur>>
    /\ UNCHANGED <<args, urls, generated, submitted, results, poolv, filev>>

\* one iteration of the generation loop
GenerateStep ==
    /\ pc = "generate"
    /\ cur < RangeStop(end)
    /\ urls' = Append(urls, Candidate(cur, MakeUrl(prefix, suffix, cur, padding, gprefix, gsuffix)))
    /\ generated' = urls'
    /\ cur' = cur + 1
    /\ UNCHANGED <<args, pc, err, prefix, suffix, submitted, results, poolv, filev>>

\* the loop is exhausted: if args.verify
GenerateDone ==
    /\ pc = "generate"
    /\ ~(cur < RangeStop(end))
    /\ pc' = IF VerifyRequested(verify) THEN "executor" ELSE "open"
    /\ UNCHANGED <<args, err, prefix, suffix, cur, urls, generated, submitted, results, poolv, filev>>

\* ThreadPoolExecutor(...) raises ValueError unless max_workers > 0
CreateExecutor ==
    /\ pc = "executor"
    /\ IF max_workers(threads) <= 0
       THEN /\ pc' = "failed"
            /\ err' = "ValueError: max_workers"
            /\ UNCHANGED <<future, probes>>
       ELSE /\ pc' = "submit"
            /\ err' = err
            /\ future' = [k \in 1..Len(urls) |-> "unsubmitted"]
            /\ probes' = [k \in 1..Len(urls) |-> 0]
    /\ UNCHANGED <<args, prefix, suffix, cur, urls, generated, submitted, results,
                   queue, running, completion, filev>>

\* executor.map submits every item before it yields a result
Submit ==
    /\ pc = "submit"
    /\ submitted < Len(urls)
    /\ submitted' = submitted + 1
    /\ queue' = Append(queue, submitted + 1)
    /\ future' = [future EXCEPT ![submitted + 1] = "pending"]
    /\ UNCHANGED <<args, pc, err, prefix, suffix, cur, urls, generated, results,
                   running, completion, probes, filev>>

SubmitDone ==
    /\ pc = "submit"
    /\ submitted = Len(urls)
    /\ pc' = "collect"
    /\ UNCHANGED <<args, err, prefix, suffix, cur, urls, generated, submitted, results, poolv, filev>>

\* list(...) takes the next result, re-raising what the work item raised
Collect ==
    /\ pc = "collect"
    /\ Len(results) < Len(urls)
    /\ LET k == NextResult(Len(results), completion)
       IN  /\ k \in 1..Len(urls)
           /\ future[k] \in {"true", "false", "exception"}
           /\ IF future[k] = "exception"
              THEN /\ pc' = "failed"
                   /\ err' = "probe"
                   /\ UNCHANGED results
              ELSE /\ results' = Append(results,
                          [index |-> urls[k].index, url |-> urls[k].url, valid |-> future[k]])
                   /\ UNCHANGED <<pc, err>>
    /\ UNCHANGED <<args, prefix, suffix, cur, urls, generated, submitted, poolv, filev>>

\* valid_urls = [...]; the pool shuts down; urls = valid_urls
Filter ==
    /\ pc = "collect"
    /\ Len(results) = Len(urls)
    /\ urls' = ValidUrls(results)
    /\ pc' = "open"
    /\ UNCHANGED <<args, err, prefix, suffix, cur, generated, submitted, results, poolv, filev>>

\* ------------------------------------------------------------------ pool workers
\* a free worker takes the oldest work item and issues its HEAD request
ProbeStart ==
    /\ queue # <<>>
    /\ Cardinality(running) < max_workers(threads)
    /\ running' = running \cup {Head(queue)}
    /\ queue' = Tail(queue)
    /\ future' = [future EXCEPT ![Head(queue)] = "running"]
    /\ probes' = [probes EXCEPT ![Head(queue)] = @ + 1]
    /\ UNCHANGED <<args, mainv, completion, filev>>

\* the request ends, in any order among those in flight
ProbeFinish ==
    \E k \in running : \E o \in Outcomes :
        /\ running' = running \ {k}
        /\ future' = [future EXCEPT ![k] = verify_url(o)]
        /\ completion' = Append(completion, k)
        /\ UNCHANGED <<args, mainv, queue, probes, filev>>

\* ------------------------------------------------------------------ writing
\* with open(args.playlist, 'w') as f; the open may fail
OpenFile ==
    /\ pc = "open"
    /\ \/ /\ pc' = "write"
          /\ handles' = handles + 1
          /\ opens' = opens + 1
          /\ content' = <<>>
          /\ err' = err
       \/ /\ pc' = "failed"
          /\ err' = "OSError"
          /\ UNCHANGED <<handles, opens, content>>
    /\ UNCHANGED <<args, prefix, suffix, cur, urls, generated, submitted, results, poolv, written>>

\* the plain, m3u and pls branches write through f
WriteBody ==
    /\ pc = "write"
    /\ format # "xspf"
    /\ content' = content \o Body(format, urls)
    /\ written' = written + 1
    /\ pc' = "close"
    /\ UNCHANGED <<args, err, prefix, suffix, cur, urls, generated, submitted, results, poolv,
                   handles, opens>>

\* the xspf branch: tree.write(args.playlist) opens the path by name
XspfOpen ==
    /\ pc = "write"
    /\ format = "xspf"
    /\ handles' = handles + 1
    /\ opens' = opens + 1
    /\ content' = <<>>
    /\ pc' = "xspf"
    /\ UNCHANGED <<args, err, prefix, suffix, cur, urls, generated, submitted, results, poolv,
                   written>>

\* tree.write serialises the document and closes its own handle
XspfWrite ==
    /\ pc = "xspf"
    /\ content' = content \o XspfBody(urls)
    /\ written' = written + 1
    /\ handles' = handles - 1
    /\ pc' = "close"
    /\ UNCHANGED <<args, err, prefix, suffix, cur, urls, generated, submitted, results, poolv,
                   opens>>

\* the with block closes f
CloseFile ==
    /\ pc = "close"
    /\ handles' = handles - 1
    /\ pc' = "report"
    /\ UNCHANGED <<args, err, prefix, suffix, cur, urls, generated, submitted, results, poolv,
                   opens, written, content>>

\* print("Playlist saved to ...")
Report ==
    /\ pc = "report"
    /\ pc' = "done"
    /\ UNCHANGED <<args, err, prefix, suffix, cur, urls, generated, submitted, results, poolv, filev>>

Next ==
    \/ CheckRange
    \/ CheckTemplate
    \/ GenerateStep
    \/ GenerateDone
    \/ CreateExecutor
    \/ Submit
    \/ SubmitDone
    \/ Collect
    \/ Filter
    \/ ProbeStart
    \/ ProbeFinish
    \/ OpenFile
    \/ WriteBody
    \/ XspfOpen
    \/ XspfWrite
    \/ CloseFile
    \/ Report

Spec == Init /\ [][Next]_vars

\* ------------------------------------------------------------------ properties
VerifyStage == {"submit", "collect"}

Terminated == pc \in {"done", "failed"}

\* the generation loop has run to its end
GenerationOver ==
    \/ pc \in {"executor", "submit", "collect", "open", "write", "xspf", "close", "report", "done"}
    \/ pc = "failed" /\ err \notin {"usage", "ValueError: template"}

BodyWritten == pc \in {"close", "report", "done"}

NoProbeIssued == probes = <<>> /\ running = {} /\ queue = <<>> /\ completion = <<>>

NothingWritten == handles = 0 /\ opens = 0 /\ written = 0 /\ content = <<>>

UrlLines == {"url", "File", "location"}
TitleLines == {"#EXTINF:-1,Track", "Title", "title"}

RECURSIVE UrlsOf(_)
UrlsOf(ls) ==
    IF ls = <<>> THEN <<>>
    ELSE IF ls[1].tag \in UrlLines THEN <<ls[1].url>> \o UrlsOf(Tail(ls)) ELSE UrlsOf(Tail(ls))

RECURSIVE TitlesOf(_)
TitlesOf(ls) ==
    IF ls = <<>> THEN <<>>
    ELSE IF ls[1].tag \in TitleLines THEN <<ls[1].idx>> \o TitlesOf(Tail(ls)) ELSE TitlesOf(Tail(ls))

RECURSIVE ReachableFrom(_)
\* the candidates at positions k.. whose probe reported reachable, ascending
ReachableFrom(k) ==
    IF k > Len(generated) THEN <<>>
    ELSE IF future[k] = "true" THEN <<generated[k]>> \o ReachableFrom(k + 1)
         ELSE ReachableFrom(k + 1)

RECURSIVE UrlFields(_)
UrlFields(cs) == IF cs = <<>> THEN <<>> ELSE <<cs[1].url>> \o UrlFields(Tail(cs))

RECURSIVE IndexFields(_)
IndexFields(cs) == IF cs = <<>> THEN <<>> ELSE <<cs[1].index>> \o IndexFields(Tail(cs))

\* C1: with verification on, what is written is exactly the candidates whose
\* probe reported reachable, in ascending original order, whatever the order
\* in which the probes completed.
C1_VerifiedOrderPreserved ==
    (verify /\ BodyWritten) =>
        /\ urls = ReachableFrom(1)
        /\ UrlsOf(content) = UrlFields(ReachableFrom(1))
        /\ (format # "plain" => TitlesOf(content) = IndexFields(ReachableFrom(1)))

C1_Witness ==
    /\ verify /\ pc = "done"
    /\ completion = <<2, 1>>
    /\ future = <<"true", "true">>
    /\ Len(UrlsOf(content)) = 2

\* C2: while the pool exists, the probes started and not finished number at
\* most `threads`; outside the verification stage no probe is in flight.
C2_BoundedInFlight ==
    /\ pc \in VerifyStage => Cardinality(running) <= threads
    /\ pc \notin VerifyStage => running = {}

C2_Witness ==
    /\ pc \in VerifyStage
    /\ threads = 1
    /\ Cardinality(running) = 1
    /\ queue # <<>>

\* C3: a template without the wildcard never gets past the template check:
\* nothing is generated, no probe is issued, the output path is never opened.
C3_NoWildcardFailsEarly ==
    ~HasWildcard(link) =>
        /\ pc \in {"main", "template", "failed"}
        /\ generated = <<>> /\ urls = <<>>
        /\ NoProbeIssued
        /\ NothingWritten

C3_Witness ==
    /\ ~HasWildcard(link)
    /\ pc = "failed"
    /\ err = "ValueError: template"

\* C4: start > end is rejected by main before generate_playlist runs: no
\* candidate, no probe, no output file.
C4_StartAfterEndFails ==
    start > end =>
        /\ pc \in {"main", "failed"}
        /\ (pc = "failed" => err = "usage")
        /\ generated = <<>> /\ urls = <<>>
        /\ NoProbeIssued
        /\ NothingWritten

C4_Witness ==
    /\ start > end
    /\ pc = "failed"
    /\ err = "usage"
    /\ HasWildcard(link)

Expanding == pc = "generate" \/ generated # <<>>

\* C5 as stated: a template that is expanded has exactly one wildcard.
C5_ExactlyOneWildcard == Expanding => CountWildcards(link) = 1

\* C5 amended: a template that is expanded has at least one wildcard and is
\* split at its first one; any further wildcard stays in the suffix.
C5_AtLeastOneWildcard ==
    Expanding =>
        /\ CountWildcards(link) >= 1
        /\ ~HasWildcard(prefix)
        /\ link = prefix \o <<"*">> \o suffix

C5_Witness ==
    /\ generated # <<>>
    /\ CountWildcards(link) = 2
    /\ HasWildcard(suffix)

\* C6: once the generation loop is over there are end - start + 1 candidates
\* with indices start, start + 1, ..., end, whatever the padding and affixes.
C6_ContiguousCandidates ==
    /\ \A k \in 1..Len(generated) : generated[k].index = start + k - 1
    /\ GenerationOver =>
           /\ Len(generated) = end - start + 1
           /\ generated[Len(generated)].index = end

C6_Witness ==
    /\ GenerationOver
    /\ Len(generated) = 2
    /\ padding # 0
    /\ gprefix # <<>>
    /\ gsuffix # <<>>

\* C7: when the run is over, every generated candidate was probed exactly
\* once if verify is set, and no probe was issued if it is not.
C7_OneProbePerCandidate ==
    Terminated =>
        IF verify
        THEN /\ Len(probes) = Len(generated)
             /\ \A k \in 1..Len(probes) : probes[k] = 1
        ELSE NoProbeIssued

\* C8: no probe outcome aborts the run: the run is never stuck, a failure
\* after a probe has failed comes from opening the output, and a finished
\* run has written the file once, with no entry when every probe failed.
C8_ProbeFailureContained ==
    /\ err # "probe"
    /\ ~Terminated => ENABLED Next
    /\ (pc = "failed" /\ \E k \in 1..Len(future) : future[k] = "false") => err = "OSError"
    /\ (pc = "done" /\ verify) =>
           /\ written = 1
           /\ (\A k \in 1..Len(future) : future[k] = "false") => UrlsOf(content) = <<>>

C8_Witness ==
    /\ pc = "done"
    /\ verify
    /\ Len(generated) = 2
    /\ future = <<"false", "false">>
    /\ written = 1
    /\ UrlsOf(content) = <<>>

\* C9: a pls file announces as many entries as it holds, numbers them 1, 2,
\* ... in output order as File, Title, Length, and the title carries the
\* candidate's own index.
C9_PlsNumbering ==
    (format = "pls" /\ BodyWritten) =>
        /\ Len(content) = 4 + 4 * Len(urls)
        /\ content[2].tag = "NumberOfEntries" /\ content[2].n = Len(urls)
        /\ Cardinality({j \in 1..Len(content) : content[j].tag = "File"}) = Len(urls)
        /\ \A n \in 1..Len(urls) :
               /\ content[4 * n + 1] = Line("File", n, urls[n].url, 0)
               /\ content[4 * n + 2] = Line("Title", n, <<>>, urls[n].index)
               /\ content[4 * n + 3] = Line("Length", n, <<>>, 0)
               /\ content[4 * n + 4].tag = ""

C9_Witness ==
    /\ format = "pls" /\ pc = "done" /\ verify
    /\ Len(generated) = 2
    /\ Len(urls) = 1
    /\ urls[1] = generated[2]
    /\ content[5].tag = "File" /\ content[5].n = 1
    /\ content[2].n = 1

\* C10: the output path is opened for writing once, after every probe has
\* finished, and never by two handles at a time.
C10_SingleWriter ==
    /\ handles <= 1
    /\ opens <= 1
    /\ written <= 1
    /\ opens > 0 => (running = {} /\ queue = <<>> /\ GenerationOver)

==========================================================================
